---- MODULE Spec2Model ----
(***************************************************************************)
(* ESP32 environment monitor (sketch.ino): the cooperative loop that       *)
(* interleaves sensor sampling, display refresh and button debouncing,    *)
(* with the threshold evaluation that derives the alarm.                   *)
(*                                                                         *)
(* Time is the millisecond counter millis().  A float is modelled as a    *)
(* record [nan, val]: either the not-a-number value or an integer value   *)
(* (whole degrees / whole percent).  Comparisons with not-a-number are    *)
(* false, as in IEEE 754.                                                  *)
(***************************************************************************)
EXTENDS Integers, Sequences, FiniteSets, TLC

VARIABLES
    \* ---- environment
    clock,              \* milliseconds since power-up; millis() returns them
                        \* modulo 2^MillisBits
    pin,                \* raw level of BUTTON_PIN
    \* ---- program state (globals of sketch.ino)
    pc,                 \* position: "setup", or the step of loop() to run next
    now,                \* loop()'s local `now`
    currentMode,
    alarmOn,
    lastReadMillis,
    lastDisplayMillis,
    latestData,
    lastButtonChange,
    lastButtonState,
    \* ---- outputs
    buzzer,             \* level of BUZZER_PIN
    frame,              \* the frame last committed to the display
    serialLine,         \* the line last printed on Serial
    \* ---- history (observers; no action reads them in a guard of the program)
    sensed,             \* what the channels returned in the last sensor.read()
    reads,              \* number of reads of each channel so far
    samples,            \* number of sampling cycles so far
    renders,            \* number of renders so far
    toggles,            \* number of view-mode changes so far
    lastToggleAt,       \* millis() of the last view-mode change, -1 if none
    prevChange,         \* lastButtonChange before the last accepted transition, -1 if none
    sampledInPass,      \* the current pass has sampled
    renderedInPass,     \* the current pass has rendered
    polled,             \* raw level the previous poll read
    seen,               \* the raw transitions the polls observed: <<[at, level]>>
    pinSince,           \* millis() at which the raw level last changed
    flips,              \* number of raw level changes so far
    ticks,              \* number of clock advances so far
    nowAt,              \* milliseconds since power-up when loop() read `now`
    modeAtTop,          \* the view mode when the current pass started
    readAt,             \* milliseconds since power-up at the last sample
    displayAt,          \* milliseconds since power-up at the last render
    changeAt            \* milliseconds since power-up at the last accepted transition

vars == <<clock, pin, pc, now, currentMode, alarmOn, lastReadMillis,
          lastDisplayMillis, latestData, lastButtonChange, lastButtonState,
          buzzer, frame, serialLine, sensed, reads, samples, renders, toggles,
          lastToggleAt, prevChange, sampledInPass, renderedInPass, polled,
          seen, pinSince, flips, ticks, nowAt, modeAtTop, readAt, displayAt,
          changeAt>>

envVars     == <<clock, pin, pinSince, flips, ticks>>
passVars    == <<now, nowAt, modeAtTop>>
sampleVars  == <<alarmOn, lastReadMillis, latestData, buzzer, serialLine,
                 sensed, reads, samples, sampledInPass, readAt>>
renderVars  == <<lastDisplayMillis, frame, renders, renderedInPass, displayAt>>
buttonVars  == <<currentMode, lastButtonChange, lastButtonState, toggles,
                 lastToggleAt, prevChange, polled, seen, changeAt>>

----------------------------------------------------------------------------
\* Bounds of the model.
MaxTicks == 3
MaxFlips == 3
\* Width of the millisecond counter.  unsigned long has 32 bits on the ESP32;
\* the model keeps the wrapping arithmetic at a width whose wraparound the
\* runs can reach.  Only SpecWrap lets the clock pass 2^MillisBits.
MillisBits == 13
MILLIS_MOD == 2 ^ MillisBits

\* Clock advances between two reads of millis(): they combine to the
\* boundary values 200/201 and 499/500, and to 2000.
Deltas == {1, 199, 300, 2000}
\* Clock advances within one pass.
PassDeltas == {1}

\* Values a successful DHT read returns, and raw light levels.
TempValues  == {30}
HumidValues == {70}
LightValues == {1000, 1001}

----------------------------------------------------------------------------
\* Configuration constants.
TEMP_HIGH_THRESHOLD  == 30
HUMID_HIGH_THRESHOLD == 70
LIGHT_LOW_THRESHOLD  == 1000
READ_INTERVAL_MS     == 2000
DISPLAY_INTERVAL_MS  == 500
BUTTON_DEBOUNCE_MS   == 200
ADC_MAX              == 4095

LOW  == "LOW"
HIGH == "HIGH"
SUMMARY == "SUMMARY"
DETAIL  == "DETAIL"

\* float
NaN    == [nan |-> TRUE, val |-> 0]
F(v)   == [nan |-> FALSE, val |-> v]
isnan(x) == x.nan
\* x >= c for a float x: false when x is not-a-number
FloatGE(x, c) == (~x.nan) /\ x.val >= c

\* EnvData
EnvData(t, h, l) == [temperature |-> t, humidity |-> h, lightRaw |-> l]
\* `EnvData latestData;` at namespace scope: zero-initialised
ZeroData == EnvData(F(0), F(0), 0)

ElapsedSigned(n, last) == n - last
\* unsigned long subtraction now - last: modulo the width of the counter
Elapsed(n, last) == (n - last) % MILLIS_MOD

----------------------------------------------------------------------------
\* Threshold evaluation: the value updateAlarm assigns to alarmOn.
tempHighStrict(data) == (~isnan(data.temperature)) /\ data.temperature.val > TEMP_HIGH_THRESHOLD
tempHigh(data) == (~isnan(data.temperature)) /\ FloatGE(data.temperature, TEMP_HIGH_THRESHOLD)
humHigh(data)  == (~isnan(data.humidity)) /\ FloatGE(data.humidity, HUMID_HIGH_THRESHOLD)
lightLow(data) == data.lightRaw <= LIGHT_LOW_THRESHOLD

updateAlarm(data) == tempHigh(data) \/ humHigh(data) \/ lightLow(data)

BuzzerToggled(alarm) ==
    IF alarm THEN (IF buzzer = LOW THEN HIGH ELSE LOW) ELSE LOW
BuzzerActiveLow(alarm) == IF alarm THEN LOW ELSE HIGH
\* digitalWrite(BUZZER_PIN, alarmOn ? HIGH : LOW)
BuzzerLevel(alarm) == IF alarm THEN HIGH ELSE LOW

----------------------------------------------------------------------------
\* Sensor port.  A DHT read returns a value or, when it fails, not-a-number.
DhtResults(values) == {NaN} \cup {F(v) : v \in values}

\* What the three channels return when read: raw.temperature, raw.humidity
\* (a value, or not-a-number when the read fails) and raw.lightRaw.
ChannelResults == {EnvData(t, h, l) : t \in DhtResults(TempValues),
                                      h \in DhtResults(HumidValues),
                                      l \in LightValues}

ReadCallsRetrying(raw) ==
    [temperature |-> IF isnan(raw.temperature) THEN 2 ELSE 1,
     humidity    |-> IF isnan(raw.humidity) THEN 2 ELSE 1,
     lightRaw    |-> 1]
\* Number of reads of each channel one EnvSensor::read() makes.
ReadCalls(raw) == [temperature |-> 1, humidity |-> 1, lightRaw |-> 1]

\* EnvSensor::read(): the three channel results, stored as they come.
EnvSensorRead(raw) == EnvData(raw.temperature, raw.humidity, raw.lightRaw)

----------------------------------------------------------------------------
\* Display.  A printed item is a record: a number with its decimals, or a text.
Text(s)          == [num |-> FALSE, val |-> 0, dec |-> 0, text |-> s]
\* Print::print(double, digits): "nan" for not-a-number
PrintFloat(x, d) == IF isnan(x) THEN Text("nan")
                    ELSE [num |-> TRUE, val |-> x.val, dec |-> d, text |-> ""]
PrintInt(i)      == [num |-> TRUE, val |-> i, dec |-> 0, text |-> ""]

NoFrame    == [title |-> "(off)", temp |-> Text(""), tempUnit |-> "",
               hum |-> Text(""), humUnit |-> "", light |-> Text(""),
               lightOver |-> "", alarm |-> "", hint |-> ""]
BlankFrame == [NoFrame EXCEPT !.title = ""]

showSummary(data, alarm) ==
    [title     |-> "ENV MONITOR - SUMMARY",
     temp      |-> IF isnan(data.temperature) THEN Text("ERR")
                   ELSE PrintFloat(data.temperature, 1),
     tempUnit  |-> IF isnan(data.temperature) THEN "" ELSE " C",
     hum       |-> IF isnan(data.humidity) THEN Text("ERR")
                   ELSE PrintFloat(data.humidity, 1),
     humUnit   |-> IF isnan(data.humidity) THEN "" ELSE " %",
     light     |-> PrintInt(data.lightRaw),
     lightOver |-> " /4095",
     alarm     |-> IF alarm THEN "ON" ELSE "OFF",
     hint      |-> ""]

showDetailWithMarker(data) ==
    [title     |-> "ENV MONITOR - DETAIL",
     temp      |-> IF isnan(data.temperature) THEN Text("ERR")
                   ELSE PrintFloat(data.temperature, 2),
     tempUnit  |-> "",
     hum       |-> IF isnan(data.humidity) THEN Text("ERR")
                   ELSE PrintFloat(data.humidity, 2),
     humUnit   |-> "",
     light     |-> PrintInt(data.lightRaw),
     lightOver |-> "",
     alarm     |-> "",
     hint      |-> "Press button to switch mode."]

showDetail(data) ==
    [title     |-> "ENV MONITOR - DETAIL",
     temp      |-> PrintFloat(IF isnan(data.temperature) THEN NaN ELSE data.temperature, 2),
     tempUnit  |-> "",
     hum       |-> PrintFloat(IF isnan(data.humidity) THEN NaN ELSE data.humidity, 2),
     humUnit   |-> "",
     light     |-> PrintInt(data.lightRaw),
     lightOver |-> "",
     alarm     |-> "",
     hint      |-> "Press button to switch mode."]

\* The branch of loop() that picks the layout.
Render(mode, data, alarm) ==
    IF mode = SUMMARY THEN showSummary(data, alarm) ELSE showDetail(data)

\* Serial output
SerialText(s)    == [text |-> s, data |-> ZeroData]
SerialReading(d) == [text |-> "T=C, H=%, L=", data |-> d]

----------------------------------------------------------------------------
PassOrderRenderFirst == <<"top", "display", "read", "button">>
PassOrderPollFirst == <<"top", "button", "read", "display">>
\* Order of the steps of one pass of loop().
PassOrder == <<"top", "read", "display", "button">>

NextPc(p) ==
    LET i == CHOOSE k \in 1..Len(PassOrder) : PassOrder[k] = p
    IN  PassOrder[(i % Len(PassOrder)) + 1]

DueStrict(n, last, interval) == Elapsed(n, last) > interval
\* The cadence gate: now - last >= interval
Due(n, last, interval) == Elapsed(n, last) >= interval

DebouncedAlways(n, last) == TRUE
DebouncedInclusive(n, last) == Elapsed(n, last) >= BUTTON_DEBOUNCE_MS
\* handleButton's window test
Debounced(n, last) == Elapsed(n, last) > BUTTON_DEBOUNCE_MS

AcceptsAnyChange(state, n) == state # lastButtonState
AcceptsHeld(state, n) ==
    state # lastButtonState /\ Elapsed(n, pinSince) >= BUTTON_DEBOUNCE_MS
\* handleButton's acceptance test (line 171)
Accepts(state, n) == state # lastButtonState /\ Debounced(n, lastButtonChange)

FallingEdge(state) == state = LOW
EitherEdge(state) == state \in {LOW, HIGH}
\* Button pressed (line 176)
RisingEdge(state) == state = HIGH

\* millis(): the counter, wrapping to 0 at 2^MillisBits
millis == clock % MILLIS_MOD

OtherMode(m)  == IF m = SUMMARY THEN DETAIL ELSE SUMMARY
OtherLevel(l) == IF l = LOW THEN HIGH ELSE LOW

----------------------------------------------------------------------------
Init ==
    /\ clock = 0
    /\ pin = LOW
    /\ pc = "setup"
    /\ now = 0
    /\ currentMode = SUMMARY
    /\ alarmOn = FALSE
    /\ lastReadMillis = 0
    /\ lastDisplayMillis = 0
    /\ latestData = ZeroData
    /\ lastButtonChange = 0
    /\ lastButtonState = LOW
    /\ buzzer = LOW
    /\ frame = NoFrame
    /\ serialLine = SerialText("")
    /\ sensed = ZeroData
    /\ reads = [temperature |-> 0, humidity |-> 0, lightRaw |-> 0]
    /\ samples = 0
    /\ renders = 0
    /\ toggles = 0
    /\ lastToggleAt = -1
    /\ prevChange = -1
    /\ sampledInPass = FALSE
    /\ renderedInPass = FALSE
    /\ polled = LOW
    /\ seen = <<>>
    /\ pinSince = 0
    /\ flips = 0
    /\ ticks = 0
    /\ nowAt = 0
    /\ modeAtTop = SUMMARY
    /\ readAt = 0
    /\ displayAt = 0
    /\ changeAt = 0

SetupHalting ==
    /\ pc = "setup"
    /\ buzzer' = LOW
    /\ \E ok \in BOOLEAN :
          /\ frame' = IF ok THEN BlankFrame ELSE frame
          /\ serialLine' = IF ok THEN SerialText("System init OK.")
                           ELSE SerialText("OLED init failed!")
          /\ pc' = IF ok THEN "top" ELSE "halted"
    /\ UNCHANGED <<envVars, passVars, buttonVars, alarmOn, lastReadMillis, latestData,
                   sensed, reads, samples, sampledInPass, lastDisplayMillis,
                   renders, renderedInPass, readAt, displayAt>>

\* setup(): the buzzer off, the display initialised (or not), one line on Serial.
Setup ==
    /\ pc = "setup"
    /\ buzzer' = LOW
    /\ \E ok \in BOOLEAN :
          /\ frame' = IF ok THEN BlankFrame ELSE frame
          /\ serialLine' = IF ok THEN SerialText("System init OK.")
                           ELSE SerialText("OLED init failed!")
    /\ pc' = "top"
    /\ UNCHANGED <<envVars, passVars, buttonVars, alarmOn, lastReadMillis, latestData,
                   sensed, reads, samples, sampledInPass, lastDisplayMillis,
                   renders, renderedInPass, readAt, displayAt>>

\* loop(), line 206: unsigned long now = millis();
LoopTop ==
    /\ pc = "top"
    /\ now' = millis
    /\ nowAt' = clock
    /\ modeAtTop' = currentMode
    /\ sampledInPass' = FALSE
    /\ renderedInPass' = FALSE
    /\ pc' = NextPc("top")
    /\ UNCHANGED <<envVars, buttonVars, alarmOn, lastReadMillis, latestData, buzzer,
                   serialLine, sensed, reads, samples, lastDisplayMillis, frame,
                   renders, readAt, displayAt>>

SampleWithStaleTimestamp(raw) ==
    /\ lastReadMillis' = lastReadMillis
    /\ latestData' = EnvSensorRead(raw)
    /\ alarmOn' = updateAlarm(EnvSensorRead(raw))
    /\ buzzer' = BuzzerLevel(updateAlarm(EnvSensorRead(raw)))
    /\ serialLine' = SerialReading(EnvSensorRead(raw))
    /\ sensed' = raw
    /\ reads' = [c \in DOMAIN reads |-> reads[c] + ReadCalls(raw)[c]]
    /\ samples' = samples + 1
    /\ sampledInPass' = TRUE
    /\ readAt' = nowAt

SampleWithStaleAlarm(raw) ==
    /\ lastReadMillis' = now
    /\ latestData' = EnvSensorRead(raw)
    /\ alarmOn' = alarmOn
    /\ buzzer' = buzzer
    /\ serialLine' = SerialReading(EnvSensorRead(raw))
    /\ sensed' = raw
    /\ reads' = [c \in DOMAIN reads |-> reads[c] + ReadCalls(raw)[c]]
    /\ samples' = samples + 1
    /\ sampledInPass' = TRUE
    /\ readAt' = nowAt

\* The body of the periodic sensor read, when the channels return raw.
SampleWith(raw) ==
    /\ lastReadMillis' = now
    /\ latestData' = EnvSensorRead(raw)
    /\ alarmOn' = updateAlarm(EnvSensorRead(raw))
    /\ buzzer' = BuzzerLevel(updateAlarm(EnvSensorRead(raw)))
    /\ serialLine' = SerialReading(EnvSensorRead(raw))
    /\ sensed' = raw
    /\ reads' = [c \in DOMAIN reads |-> reads[c] + ReadCalls(raw)[c]]
    /\ samples' = samples + 1
    /\ sampledInPass' = TRUE
    /\ readAt' = nowAt

\* loop(), lines 208-220, with the channels returning one of `results`
PeriodicReadOf(results) ==
    /\ pc = "read"
    /\ IF Due(now, lastReadMillis, READ_INTERVAL_MS)
       THEN \E raw \in results : SampleWith(raw)
       ELSE UNCHANGED sampleVars
    /\ pc' = NextPc("read")
    /\ UNCHANGED <<envVars, passVars, buttonVars, renderVars>>

PeriodicRead == PeriodicReadOf(ChannelResults)

\* loop(), lines 222-230
PeriodicDisplay ==
    /\ pc = "display"
    /\ IF Due(now, lastDisplayMillis, DISPLAY_INTERVAL_MS)
       THEN /\ lastDisplayMillis' = now
            /\ frame' = Render(currentMode, latestData, alarmOn)
            /\ renders' = renders + 1
            /\ renderedInPass' = TRUE
            /\ displayAt' = nowAt
       ELSE UNCHANGED renderVars
    /\ pc' = NextPc("display")
    /\ UNCHANGED <<envVars, passVars, buttonVars, sampleVars>>

\* handleButton(): reads the pin and millis() itself.
handleButton ==
    /\ pc = "button"
    /\ LET state  == pin
           bnow   == millis
           accept == Accepts(state, bnow)
           toggle == accept /\ RisingEdge(state)
       IN  /\ lastButtonChange' = IF accept THEN bnow ELSE lastButtonChange
           /\ lastButtonState' = IF accept THEN state ELSE lastButtonState
           /\ currentMode' = IF toggle THEN OtherMode(currentMode) ELSE currentMode
           /\ prevChange' = IF accept THEN lastButtonChange ELSE prevChange
           /\ toggles' = IF toggle THEN toggles + 1 ELSE toggles
           /\ lastToggleAt' = IF toggle THEN bnow ELSE lastToggleAt
           /\ changeAt' = IF accept THEN clock ELSE changeAt
           /\ polled' = state
           /\ seen' = IF state # polled
                      THEN Append(seen, [at |-> bnow, level |-> state])
                      ELSE seen
    /\ pc' = NextPc("button")
    /\ UNCHANGED <<envVars, passVars, sampleVars, renderVars>>

\* ---- environment
Advance(d) ==
    /\ clock' = clock + d
    /\ UNCHANGED <<pin, pinSince, flips, pc, passVars, buttonVars, sampleVars, renderVars>>

\* Time passes between two passes of loop().
Tick ==
    /\ pc = "top"
    /\ ticks < MaxTicks
    /\ ticks' = ticks + 1
    /\ \E d \in Deltas : Advance(d)

\* Time passes within a pass, between loop()'s read of millis() and
\* handleButton's.
TickInPass ==
    /\ pc = "button"
    /\ ticks < MaxTicks
    /\ ticks' = ticks + 1
    /\ \E d \in PassDeltas : Advance(d)

\* The button is pressed or released (or bounces).
PinChange ==
    /\ pc \in {"top", "button"}
    /\ flips < MaxFlips
    /\ pin' = OtherLevel(pin)
    /\ pinSince' = clock
    /\ flips' = flips + 1
    /\ UNCHANGED <<clock, ticks, pc, passVars, buttonVars, sampleVars, renderVars>>

LoopStep == LoopTop \/ PeriodicRead \/ PeriodicDisplay \/ handleButton

Next == Setup \/ LoopStep \/ Tick \/ TickInPass \/ PinChange

Spec == Init /\ [][Next]_vars

----------------------------------------------------------------------------
\* The threshold evaluation on every reading set: the channels hold one
\* result, drawn from the whole raw range of the light channel, and every
\* sampling cycle reads it.
EvalTemps  == {29, 30}
EvalHumids == {69, 70}
EvalResults == {EnvData(t, h, l) : t \in DhtResults(EvalTemps),
                                   h \in DhtResults(EvalHumids),
                                   l \in 0..ADC_MAX}

InitEval ==
    /\ sensed \in EvalResults
    /\ clock = 0 /\ pin = LOW /\ pc = "setup" /\ now = 0
    /\ currentMode = SUMMARY /\ alarmOn = FALSE
    /\ lastReadMillis = 0 /\ lastDisplayMillis = 0 /\ latestData = ZeroData
    /\ lastButtonChange = 0 /\ lastButtonState = LOW
    /\ buzzer = LOW /\ frame = NoFrame /\ serialLine = SerialText("")
    /\ reads = [temperature |-> 0, humidity |-> 0, lightRaw |-> 0]
    /\ samples = 0 /\ renders = 0 /\ toggles = 0
    /\ lastToggleAt = -1 /\ prevChange = -1
    /\ sampledInPass = FALSE /\ renderedInPass = FALSE
    /\ polled = LOW /\ seen = <<>> /\ pinSince = 0 /\ flips = 0 /\ ticks = 0
    /\ nowAt = 0 /\ modeAtTop = SUMMARY
    /\ readAt = 0 /\ displayAt = 0 /\ changeAt = 0

PeriodicReadHeld == PeriodicReadOf({sensed})

\* One sampling interval passes.
TickInterval ==
    /\ pc = "top"
    /\ ticks < MaxTicks
    /\ ticks' = ticks + 1
    /\ Advance(READ_INTERVAL_MS)

NextEval == Setup \/ LoopTop \/ PeriodicReadHeld \/ PeriodicDisplay
               \/ handleButton \/ TickInterval

SpecEval == InitEval /\ [][NextEval]_vars

----------------------------------------------------------------------------
\* C1: After a sampling cycle the alarm flag is true if and only if the
\* temperature read is present and >= 30, or the humidity read is present and
\* >= 70, or the light read is <= 1000; so a present temperature >= 30 gives
\* alarm true whatever the other channels are, and absent temperature and
\* humidity with light > 1000 give alarm false.
C1_AlarmPolicy ==
    samples > 0 =>
        LET t == sensed.temperature
            h == sensed.humidity
            l == sensed.lightRaw
        IN  /\ alarmOn <=> \/ (~t.nan /\ t.val >= 30)
                           \/ (~h.nan /\ h.val >= 70)
                           \/ l <= 1000
            /\ (~t.nan /\ t.val >= 30) => alarmOn
            /\ (t.nan /\ h.nan /\ l > 1000) => ~alarmOn

\* A sampling cycle has read temperature exactly 30 with humidity absent and
\* light above the threshold, and the alarm is on.
C1_Witness ==
    /\ samples > 0
    /\ sensed = EnvData(F(30), NaN, 1001)
    /\ alarmOn

\* C2: In every state of the loop, from the first pass on, the alarm flag
\* equals the threshold evaluation of the latest reading set held by the loop.
C2_AlarmIsEvaluationOfLatest ==
    pc # "setup" => (alarmOn <=> updateAlarm(latestData))

\* C3: The view mode changes only in a button poll that reads the raw level
\* high while the last stable level is low and more than 200 ms have passed
\* since the last accepted transition, and any two changes of the view mode
\* are more than 200 ms apart.
C3_ModeChangesOnlyOnDebouncedRise ==
    [][currentMode' # currentMode =>
          /\ pc = "button"
          /\ pin = HIGH
          /\ lastButtonState = LOW
          /\ clock - lastButtonChange > 200
          /\ lastButtonChange' = clock
          /\ (lastToggleAt # -1 => clock - lastToggleAt > 200)]_vars

\* The view mode has changed twice: to Detail and back to Summary.
C3_Witness ==
    /\ toggles = 2
    /\ currentMode = SUMMARY
    /\ lastToggleAt = lastButtonChange
    /\ lastButtonState = HIGH

\* C4: When a pass both samples and renders, the frame it renders shows the
\* reading set that pass's sample read, and in the Summary layout the alarm
\* status evaluated from it (the Detail layout has no alarm line).
C4_RenderShowsSamePassSample ==
    (sampledInPass /\ renderedInPass) =>
        \/ frame = showSummary(sensed, updateAlarm(sensed))
        \/ frame = showDetail(sensed)

\* The second sampling cycle and a render happened in the same pass, and the
\* frame shows its reading, different from the boot-time data.
C4_Witness ==
    /\ samples = 2
    /\ sampledInPass /\ renderedInPass
    /\ pc = "button"
    /\ frame = showSummary(EnvData(NaN, F(70), 1001), TRUE)

\* The polls have observed low-to-high, then more than 200 ms later
\* high-to-low, then more than 200 ms later low-to-high, and the last of these
\* polls is complete.
LowHighLowHigh ==
    /\ Len(seen) = 3
    /\ seen[1].level = HIGH /\ seen[2].level = LOW /\ seen[3].level = HIGH
    /\ seen[2].at - seen[1].at > 200
    /\ seen[3].at - seen[2].at > 200

\* Two accepted transitions are never within one window of each other, so the
\* flips inside the window after an accepted transition add no toggle to its one.
OneTogglePerWindow ==
    /\ prevChange # -1 => lastButtonChange - prevChange > 200
    /\ (toggles > 0 /\ lastButtonChange # lastToggleAt) =>
           /\ lastButtonState = LOW
           /\ lastButtonChange - lastToggleAt > 200

\* C5 as stated: flips within one window after an accepted transition give at
\* most one toggle in total, and low-to-high, high-to-low, low-to-high, each
\* more than a window after the one before, give exactly two toggles.
C5_AsStated ==
    /\ OneTogglePerWindow
    /\ LowHighLowHigh => toggles = 2

\* C5, amended: the same, for a first low-to-high transition polled more than
\* 200 ms after start (the last-transition timestamp starts at 0, so a rise
\* polled in the first 200 ms is not accepted by that poll); the two toggles
\* are those of the two low-to-high transitions.
C5_TwoTogglesAfterBootWindow ==
    /\ OneTogglePerWindow
    /\ (LowHighLowHigh /\ seen[1].at > 200) =>
           /\ toggles = 2
           /\ lastToggleAt = seen[3].at
           /\ prevChange = seen[2].at
           /\ currentMode = SUMMARY

\* Low-to-high, high-to-low and low-to-high have been polled, the first after
\* the boot window, and the view mode has toggled twice.
C5_Witness ==
    /\ LowHighLowHigh
    /\ seen[1].at > 200
    /\ toggles = 2

\* C6 as stated: a level change is accepted only after the raw input has held
\* the new level for the debounce window.
C6_AsStated ==
    [][lastButtonState' # lastButtonState => clock - pinSince >= 200]_vars

\* C6, amended: a poll accepts the level it reads exactly when that level
\* differs from the last stable level and more than 200 ms have passed since
\* the last accepted transition, however briefly the raw input has held it; an
\* accepted high level toggles the view mode.
C6_AcceptsWithoutHold ==
    [][(pc = "button" /\ pc' # pc) =>
          LET accepted == pin # lastButtonState /\ clock - lastButtonChange > 200
          IN  /\ lastButtonState' = IF accepted THEN pin ELSE lastButtonState
              /\ lastButtonChange' = IF accepted THEN clock ELSE lastButtonChange
              /\ (currentMode' # currentMode) <=> (accepted /\ pin = HIGH)]_vars

\* The raw level rose and fell again within the millisecond of the poll that
\* read it high, and that poll toggled the view mode.
C6_Witness ==
    /\ toggles = 1
    /\ currentMode = DETAIL
    /\ lastButtonState = HIGH
    /\ flips = 2
    /\ pin = LOW
    /\ pinSince = lastToggleAt

----------------------------------------------------------------------------
\* The end-to-end run: from time 0 a pass at every millisecond, each within
\* its millisecond, and no button activity.
E2EEnd == READ_INTERVAL_MS + 100

TickUnit ==
    /\ pc = "top"
    /\ now = clock
    /\ clock < E2EEnd
    /\ UNCHANGED ticks
    /\ Advance(1)

NextE2E == Setup \/ LoopTop \/ PeriodicRead \/ PeriodicDisplay \/ handleButton
              \/ TickUnit

SpecE2E == Init /\ [][NextE2E]_vars

\* C7: With a pass at every time unit from 0 and no button activity, when the
\* pass at time 2100 is complete exactly one sampling cycle and exactly four
\* renders have occurred, and from the first render at or after the sample on
\* the frame shows the reading set that sample produced.
C7_OneSampleFourRenders ==
    /\ (clock = 2100 /\ now = 2100 /\ pc = "top") =>
           /\ samples = 1
           /\ renders = 4
           /\ lastDisplayMillis >= lastReadMillis
    /\ (samples = 1 /\ renders > 0 /\ lastDisplayMillis >= lastReadMillis) =>
           frame = showSummary(sensed, updateAlarm(sensed))

\* The pass at time 2100 is complete and the frame shows the one sample's
\* reading set, with its alarm.
C7_Witness ==
    /\ clock = 2100 /\ now = 2100 /\ pc = "top"
    /\ samples = 1 /\ renders = 4
    /\ sensed = EnvData(F(30), NaN, 1001)
    /\ frame = showSummary(EnvData(F(30), NaN, 1001), TRUE)

----------------------------------------------------------------------------
\* A single rising edge: the raw input is low, rises once, at any time, and
\* stays high.  The clock keeps advancing (up to LiveEnd) and loop() keeps
\* being called.
LiveEnd == 2 * BUTTON_DEBOUNCE_MS + 2
LiveDeltas == {100, 101}

TickLive ==
    /\ pc # "setup"
    /\ UNCHANGED ticks
    /\ \E d \in LiveDeltas : clock + d <= LiveEnd /\ Advance(d)

PinRise ==
    /\ pc \in {"top", "button"}
    /\ pin = LOW
    /\ flips = 0
    /\ pin' = HIGH
    /\ pinSince' = clock
    /\ flips' = flips + 1
    /\ UNCHANGED <<clock, ticks, pc, passVars, buttonVars, sampleVars, renderVars>>

NextRise == Setup \/ LoopStep \/ TickLive \/ PinRise

SpecRise ==
    /\ Init
    /\ [][NextRise]_vars
    /\ WF_vars(Setup)
    /\ WF_vars(LoopStep)
    /\ WF_vars(TickLive)

\* C8: From the initial state, once the raw input has risen (at any time, also
\* within the first 200 ms) and stays high, the view mode eventually changes
\* from Summary to Detail, and it changes exactly once: it stays Summary while
\* the input is low and stays Detail after the change.
C8_SingleRiseTogglesOnce ==
    /\ (pin = HIGH) ~> (currentMode = DETAIL /\ toggles = 1)
    /\ [](pin = LOW => (toggles = 0 /\ currentMode = SUMMARY))
    /\ [](toggles <= 1)
    /\ [][currentMode = DETAIL => currentMode' = DETAIL]_vars

\* The input rose and was polled within the first 200 ms, and the view mode
\* changed to Detail once, after the window.
C8_Witness ==
    /\ Len(seen) = 1
    /\ seen[1].at <= 200
    /\ pin = HIGH
    /\ toggles = 1
    /\ currentMode = DETAIL
    /\ lastToggleAt > 200

----------------------------------------------------------------------------
\* C9: In every state, and so in every render, the temperature and the
\* humidity of the reading set held by the loop are each the absent sentinel
\* or the value a sensor read produced; a frame never shows a numeric
\* temperature or humidity that no sampling cycle produced.
C9_FieldsAreReadOrAbsent ==
    pc # "setup" =>
        /\ \/ isnan(latestData.temperature)
           \/ (samples > 0 /\ latestData.temperature = sensed.temperature)
        /\ \/ isnan(latestData.humidity)
           \/ (samples > 0 /\ latestData.humidity = sensed.humidity)
        /\ (renders > 0 /\ frame.temp.num) =>
               (samples > 0 /\ frame.temp.val = sensed.temperature.val)
        /\ (renders > 0 /\ frame.hum.num) =>
               (samples > 0 /\ frame.hum.val = sensed.humidity.val)

\* C10: A sampling cycle reads each channel exactly once, keeps a failed
\* temperature or humidity read as the absent sentinel, and still evaluates
\* the alarm from the channels that remain; the loop goes on to its next step,
\* and a pass samples exactly when 2000 ms or more have passed since the last
\* sample, whatever the earlier reads returned.
C10_FailedReadIsAbsentAndLoopGoesOn ==
    /\ [][samples' # samples =>
             LET t == sensed'.temperature
                 h == sensed'.humidity
                 l == sensed'.lightRaw
             IN  /\ samples' = samples + 1
                 /\ reads' = [c \in DOMAIN reads |-> reads[c] + 1]
                 /\ t.nan => latestData'.temperature.nan
                 /\ h.nan => latestData'.humidity.nan
                 /\ latestData'.lightRaw = l
                 /\ alarmOn' <=> \/ (~t.nan /\ t.val >= 30)
                                 \/ (~h.nan /\ h.val >= 70)
                                 \/ l <= 1000
                 /\ buzzer' = IF alarmOn' THEN HIGH ELSE LOW]_vars
    /\ [][(pc = "read" /\ pc' # pc) =>
             /\ pc' = "display"
             /\ (samples' = samples + 1) <=> (now - lastReadMillis >= 2000)]_vars
    /\ [](pc # "setup" => ENABLED LoopStep)

\* The second sampling cycle's temperature read failed, after 2000 ms more:
\* the temperature is absent, each channel has been read twice, and the alarm
\* is on from the humidity alone.
C10_Witness ==
    /\ samples = 2
    /\ reads = [temperature |-> 2, humidity |-> 2, lightRaw |-> 2]
    /\ isnan(latestData.temperature)
    /\ latestData.humidity = F(70)
    /\ latestData.lightRaw = 1001
    /\ alarmOn
    /\ buzzer = HIGH
    /\ pc = "display"

----------------------------------------------------------------------------
\* C11: When the display initialisation fails, setup prints the failure line
\* and nothing prints it again (setup runs once), and setup leaves the
\* program state as a successful initialisation does: only the frame and the
\* line on Serial differ.  Every later step then depends on neither: the loop
\* always has a next step, a pass samples exactly when 2000 ms or more have
\* passed, renders exactly when 500 ms or more have passed and then writes the
\* layout of the current mode, data and alarm, and polls the button.
C11_InitFailureReportedOnceLoopUnaffected ==
    /\ [][(pc = "setup" /\ pc' # pc) =>
             /\ pc' = "top"
             /\ serialLine' \in {SerialText("System init OK."),
                                 SerialText("OLED init failed!")}
             /\ (serialLine' = SerialText("OLED init failed!")) <=> (frame' = NoFrame)
             /\ buzzer' = LOW
             /\ UNCHANGED <<currentMode, alarmOn, lastReadMillis, lastDisplayMillis,
                            latestData, lastButtonChange, lastButtonState>>]_vars
    /\ [][pc' = "setup" => pc = "setup"]_vars
    /\ [][(pc # "setup" /\ serialLine' # serialLine) =>
             serialLine'.text # "OLED init failed!"]_vars
    /\ [](pc # "setup" => ENABLED LoopStep)
    /\ [][(pc = "read" /\ pc' # pc) =>
             (samples' = samples + 1) <=> (now - lastReadMillis >= 2000)]_vars
    /\ [][(pc = "display" /\ pc' # pc) =>
             /\ (renders' = renders + 1) <=> (now - lastDisplayMillis >= 500)
             /\ (renders' = renders + 1) =>
                    frame' = Render(currentMode, latestData, alarmOn)]_vars
    /\ [][(pc = "button" /\ pc' # pc) => polled' = pin]_vars

\* The display initialisation failed, and a later pass has rendered and
\* polled the button.
C11_Witness ==
    /\ serialLine = SerialText("OLED init failed!")
    /\ renders = 1
    /\ renderedInPass
    /\ frame = showSummary(ZeroData, FALSE)
    /\ pc = "top"
    /\ polled = HIGH

\* C12: A sampling cycle that drives the alarm from the same reading set as
\* the cycle before it leaves the alarm flag and the buzzer line as that
\* cycle left them, for every reading set.
C12_DrivingAgainChangesNothing ==
    [][(samples > 0 /\ samples' = samples + 1 /\ sensed' = sensed) =>
          (alarmOn' = alarmOn /\ buzzer' = buzzer)]_vars

\* The alarm has been driven twice from the same reading set, which raises it.
C12_Witness ==
    /\ samples = 2
    /\ sensed = EnvData(NaN, F(70), 4095)
    /\ alarmOn
    /\ buzzer = HIGH

\* C13: A render writes the one layout of the current view mode.  Summary:
\* an absent temperature or humidity is the marker ERR, a present one is
\* printed with one decimal and its unit, the light is printed over 4095 and
\* the alarm as ON or OFF.  Detail: an absent temperature or humidity is
\* printed as nan, never as ERR, a present one with two decimals, with the
\* raw light integer and the instruction to press the button.
C13_LayoutByMode ==
    [][renders' = renders + 1 =>
          LET d == latestData
              f == frame'
              shown(x, dec) == [num |-> TRUE, val |-> x.val, dec |-> dec, text |-> ""]
          IN  /\ currentMode \in {SUMMARY, DETAIL}
              /\ f.light = [num |-> TRUE, val |-> d.lightRaw, dec |-> 0, text |-> ""]
              /\ currentMode = SUMMARY =>
                    /\ f.title = "ENV MONITOR - SUMMARY"
                    /\ f.temp = IF d.temperature.nan THEN Text("ERR")
                                ELSE shown(d.temperature, 1)
                    /\ f.tempUnit = IF d.temperature.nan THEN "" ELSE " C"
                    /\ f.hum = IF d.humidity.nan THEN Text("ERR")
                               ELSE shown(d.humidity, 1)
                    /\ f.humUnit = IF d.humidity.nan THEN "" ELSE " %"
                    /\ f.lightOver = " /4095"
                    /\ f.alarm = IF alarmOn THEN "ON" ELSE "OFF"
                    /\ f.hint = ""
              /\ currentMode = DETAIL =>
                    /\ f.title = "ENV MONITOR - DETAIL"
                    /\ f.temp = IF d.temperature.nan THEN Text("nan")
                                ELSE shown(d.temperature, 2)
                    /\ f.hum = IF d.humidity.nan THEN Text("nan")
                               ELSE shown(d.humidity, 2)
                    /\ f.temp # Text("ERR") /\ f.hum # Text("ERR")
                    /\ f.lightOver = "" /\ f.alarm = ""
                    /\ f.hint = "Press button to switch mode."]_vars

\* The Detail layout has been rendered for a reading set whose temperature is
\* absent and whose humidity is present.
C13_Witness ==
    /\ renders > 0
    /\ renderedInPass
    /\ currentMode = DETAIL
    /\ latestData = EnvData(NaN, F(70), 1001)
    /\ frame.title = "ENV MONITOR - DETAIL"
    /\ frame.temp = Text("nan")
    /\ frame.hum.num /\ frame.hum.val = 70
    /\ frame.light.val = 1001

\* C14: A poll that reads a level different from the last stable level when
\* 200 ms or less have passed since the last accepted transition leaves the
\* last stable level, the timestamp of the last accepted transition and the
\* view mode as they were.
C14_RejectedPollChangesNothing ==
    [][(pc = "button" /\ pc' # pc /\ pin # lastButtonState
            /\ clock - lastButtonChange <= 200) =>
          UNCHANGED <<lastButtonState, lastButtonChange, currentMode>>]_vars

\* A rise was accepted at 300 ms; the fall polled exactly 200 ms later was
\* rejected, and the state is that of the accepted rise.
C14_Witness ==
    /\ Len(seen) = 2
    /\ seen[2].level = LOW
    /\ seen[2].at - seen[1].at = 200
    /\ lastButtonChange = seen[1].at
    /\ lastButtonState = HIGH
    /\ toggles = 1
    /\ clock = seen[2].at
    /\ pc = "top"

\* C15: A poll that accepts a high-to-low transition sets the last stable
\* level low and the timestamp to the time of the poll, and leaves the view
\* mode; a poll that accepts a low-to-high transition sets them likewise and
\* changes the view mode to its other value, once.
C15_FallKeepsModeRiseFlipsIt ==
    [][(pc = "button" /\ pc' # pc /\ lastButtonState' # lastButtonState) =>
          /\ lastButtonState' = pin
          /\ lastButtonChange' = clock
          /\ (lastButtonState = HIGH) =>
                 /\ lastButtonState' = LOW
                 /\ currentMode' = currentMode
                 /\ toggles' = toggles
          /\ (lastButtonState = LOW) =>
                 /\ lastButtonState' = HIGH
                 /\ currentMode' = OtherMode(currentMode)
                 /\ currentMode' # currentMode
                 /\ toggles' = toggles + 1]_vars

\* A rise was accepted and toggled the mode to Detail, and the fall accepted
\* after it left the mode at Detail.
C15_Witness ==
    /\ toggles = 1
    /\ currentMode = DETAIL
    /\ lastButtonState = LOW
    /\ lastButtonChange > lastToggleAt
    /\ prevChange = lastToggleAt

\* C16: A sampling cycle fires only in a pass whose time is 2000 ms or more
\* after the last sample, and a render only 500 ms or more after the last
\* render, so consecutive ones are at least that far apart; a pass exactly
\* 2000 ms (500 ms) after the last sample (render) performs it; and the task
\* that fires sets its timestamp to the time of the pass.
C16_CadenceGatesInclusive ==
    /\ [][samples' # samples =>
             /\ now - lastReadMillis >= 2000
             /\ nowAt - readAt >= 2000
             /\ lastReadMillis' = now /\ readAt' = nowAt]_vars
    /\ [][renders' # renders =>
             /\ now - lastDisplayMillis >= 500
             /\ nowAt - displayAt >= 500
             /\ lastDisplayMillis' = now /\ displayAt' = nowAt]_vars
    /\ [][(pc = "read" /\ pc' # pc /\ now - lastReadMillis = 2000) =>
             (samples' = samples + 1 /\ lastReadMillis' = now)]_vars
    /\ [][(pc = "display" /\ pc' # pc /\ now - lastDisplayMillis = 500) =>
             (renders' = renders + 1 /\ lastDisplayMillis' = now)]_vars

\* The second sample fired in the pass exactly 2000 ms after the pass of the
\* first, and set the timestamp to that pass's time.
C16_Witness ==
    /\ samples = 2
    /\ lastReadMillis = 2 * READ_INTERVAL_MS
    /\ sampledInPass
    /\ now = lastReadMillis
    /\ pc = "display"

\* C17: The reading set and the alarm flag change only in a sampling step,
\* which replaces the reading set by what the channels returned and the alarm
\* flag by its evaluation; a render step and a button poll leave the reading
\* set, the alarm flag, the buzzer line and the timestamps of the other tasks
\* as they were; a sampling step and a render step leave the view mode, the
\* last stable level and its timestamp as they were.
C17_StepsWriteOnlyTheirOwnState ==
    /\ [][(latestData' # latestData \/ alarmOn' # alarmOn) =>
             (pc = "read" /\ samples' = samples + 1)]_vars
    /\ [][samples' # samples =>
             /\ pc = "read"
             /\ latestData' = sensed'
             /\ alarmOn' = updateAlarm(sensed')]_vars
    /\ [][pc = "display" =>
             UNCHANGED <<latestData, alarmOn, buzzer, lastReadMillis,
                         lastButtonChange>>]_vars
    /\ [][pc = "button" =>
             UNCHANGED <<latestData, alarmOn, buzzer, lastReadMillis,
                         lastDisplayMillis>>]_vars
    /\ [][(pc = "read" \/ pc = "display") =>
             UNCHANGED <<currentMode, lastButtonState, lastButtonChange>>]_vars

\* The second sampling cycle replaced a reading set with the alarm on by one
\* with the alarm off, and a render and a poll have run after it.
C17_Witness ==
    /\ samples = 2
    /\ latestData = EnvData(NaN, NaN, 1001)
    /\ ~alarmOn
    /\ renderedInPass
    /\ pc = "top"
    /\ lastButtonState = HIGH

\* C18: From the end of setup on, the buzzer line is high exactly when the
\* alarm flag is true; setup leaves the line low and the flag false.
C18_BuzzerFollowsAlarm ==
    /\ pc # "setup" => ((buzzer = HIGH) <=> alarmOn)
    /\ (pc = "top" /\ samples = 0) => (buzzer = LOW /\ ~alarmOn)

\* A sampling cycle has raised the alarm and the line, and a later one has
\* not yet run.
C18_Witness ==
    /\ samples = 1
    /\ alarmOn
    /\ buzzer = HIGH
    /\ pc = "button"

----------------------------------------------------------------------------
\* The layout a frame shows.
FrameMode(f) ==
    IF f.title = "ENV MONITOR - SUMMARY" THEN SUMMARY
    ELSE IF f.title = "ENV MONITOR - DETAIL" THEN DETAIL
    ELSE "none"

\* C19: A render writes the layout of the view mode as it was when its pass
\* started, and no toggle of that pass comes before it; the poll that toggles
\* leaves the frame alone, so when the pass is over its frame still shows the
\* mode before the toggle.  The mode a later render shows is the one all the
\* toggles accepted before its pass have led to.
C19_RenderUsesModeAtPassStart ==
    /\ [][renders' = renders + 1 =>
             /\ currentMode = modeAtTop
             /\ FrameMode(frame') = modeAtTop]_vars
    /\ [][currentMode' # currentMode => frame' = frame]_vars
    /\ []((renderedInPass /\ currentMode # modeAtTop) =>
             FrameMode(frame) = modeAtTop)
    /\ [](currentMode = IF toggles % 2 = 0 THEN SUMMARY ELSE DETAIL)

\* A pass rendered the Summary layout and then accepted a toggle to Detail.
C19_Witness ==
    /\ renderedInPass
    /\ modeAtTop = SUMMARY
    /\ currentMode = DETAIL
    /\ toggles = 1
    /\ FrameMode(frame) = SUMMARY
    /\ pc = "top"

----------------------------------------------------------------------------
\* Runs across the wraparound of the millisecond counter: the clock advances
\* by the boundary values of the three gates, or by one long interval that
\* ends 100 ms before the counter wraps.
WrapLead == MILLIS_MOD - 100
WrapDeltas == {200, 201, 500, 2000, WrapLead}
WrapResults == {EnvData(F(30), NaN, 1001)}

TickWrap ==
    /\ pc = "top"
    /\ ticks < MaxTicks
    /\ ticks' = ticks + 1
    /\ \E d \in WrapDeltas : Advance(d)

PeriodicReadWrap == PeriodicReadOf(WrapResults)

NextWrap == Setup \/ LoopTop \/ PeriodicReadWrap \/ PeriodicDisplay
               \/ handleButton \/ TickWrap \/ PinChange

SpecWrap == Init /\ [][NextWrap]_vars

\* C20: With millis() wrapping to 0 at 2^MillisBits and the timestamps holding
\* wrapped values, whenever less than 2^MillisBits ms have truly passed since
\* the last sample (render, accepted transition): a pass samples exactly when
\* 2000 ms or more have truly passed since the last sample, renders exactly
\* when 500 ms or more have truly passed since the last render, and a poll
\* accepts a level different from the last stable one exactly when more than
\* 200 ms have truly passed since the last accepted transition.
C20_GatesCorrectAcrossWrap ==
    /\ [](/\ now = nowAt % MILLIS_MOD
          /\ lastReadMillis = readAt % MILLIS_MOD
          /\ lastDisplayMillis = displayAt % MILLIS_MOD
          /\ lastButtonChange = changeAt % MILLIS_MOD)
    /\ [][(pc = "read" /\ pc' # pc /\ nowAt - readAt < MILLIS_MOD) =>
             ((samples' = samples + 1) <=> (nowAt - readAt >= 2000))]_vars
    /\ [][(pc = "display" /\ pc' # pc /\ nowAt - displayAt < MILLIS_MOD) =>
             ((renders' = renders + 1) <=> (nowAt - displayAt >= 500))]_vars
    /\ [][(pc = "button" /\ pc' # pc /\ clock - changeAt < MILLIS_MOD
              /\ pin # lastButtonState) =>
             ((lastButtonState' = pin) <=> (clock - changeAt > 200))]_vars

\* A sample and a render fired 100 ms before the counter wrapped, and the next
\* sample and render fired 2000 ms later, after the wrap, where millis() read
\* 1900.
C20_Witness ==
    /\ samples = 2
    /\ renders = 2
    /\ readAt = WrapLead + READ_INTERVAL_MS
    /\ displayAt = readAt
    /\ lastReadMillis = READ_INTERVAL_MS - 100
    /\ lastReadMillis < nowAt
    /\ pc = "button"

====
